---- MODULE Spec2Model ----
(***************************************************************************)
(* Model of the widget adapters of iced_aw: ColorPicker, TimePicker and    *)
(* MenuBar (src/native/color_picker.rs, src/native/time_picker.rs,         *)
(* src/native/menu/menu_bar.rs).                                           *)
(*                                                                         *)
(* One widget value (self) and the widget tree the host framework keeps    *)
(* for it (tree) are modelled.  The host framework builds a widget value   *)
(* (new + builder calls), creates or diffs the tree, and then calls the    *)
(* Widget trait operations.  The wrapped element (underlay) is an input:   *)
(* it is drawn from a small set of widgets with different tags, sizes and  *)
(* behaviours.                                                             *)
(*                                                                         *)
(* Numbers: coordinates and colour channels are counted in quarters (4     *)
(* stands for 1.0); layout bounds take multiples of one half only, so that *)
(* halving them is exact.  Times of day (NaiveTime) are seconds since      *)
(* midnight.                                                               *)
(***************************************************************************)
EXTENDS Integers, Sequences, FiniteSets, TLC

VARIABLES kind, self, phase, tree, ret, aborted, clock, seed, touched

vars == <<kind, self, phase, tree, ret, aborted, clock, seed, touched>>

(***************************************************************************)
(* Bounds of the model.                                                    *)
(***************************************************************************)
\* number of times the local clock advances
MaxTicks == 1
\* largest number of root items handed to MenuBar::new
MaxRoots == 2

(***************************************************************************)
(* Value domains of the inputs.                                            *)
(***************************************************************************)
Kinds == {"ColorPicker", "TimePicker", "MenuBar"}
Pickers == {"ColorPicker", "TimePicker"}

Lengths == {"Fill", "Shrink"}

Color_from_rgb(r, g, b) == [r |-> r, g |-> g, b |-> b, a |-> 4]

Colors == {Color_from_rgb(0, 0, 0), Color_from_rgb(4, 2, 0)}

ColorBarDraggedValues == {"None", "Hue"}

Periods == {"H24", "Am", "Pm"}

Times == {[hour |-> 9, minute |-> 30, second |-> 0, period |-> "Pm"],
          [hour |-> 12, minute |-> 0, second |-> 5, period |-> "Am"]}

Styles == {"Default", "Custom"}

\* layout bounds: x, y, width, height
Rectangles == {[x |-> 0, y |-> 0, width |-> 4, height |-> 2],
               [x |-> 6, y |-> 2, width |-> 2, height |-> 6]}

LimitsSet == {[max_width |-> 8, max_height |-> 4], [max_width |-> 2, max_height |-> 6]}

Events == {"ButtonPressed", "ButtonReleased", "CursorMoved"}

Items == {"file", "edit"}

RECURSIVE SeqsUpTo(_, _)
SeqsUpTo(S, n) ==
    IF n = 0 THEN {<<>>}
    ELSE LET shorter == SeqsUpTo(S, n - 1)
         IN  shorter \cup {Append(s, e) : s \in {t \in shorter : Len(t) = n - 1}, e \in S}

(***************************************************************************)
(* The wrapped element.  An underlay is a widget of the host toolkit with  *)
(* a tag (its state type), a width and a height; a button keeps "pressed"  *)
(* in its tree state, a pick list keeps "open" and has an overlay (its     *)
(* menu) while it is open.                                                 *)
(***************************************************************************)
Underlays == {[tag |-> "Button", width |-> "Fill", height |-> "Shrink"],
              [tag |-> "PickList", width |-> "Shrink", height |-> "Shrink"]}

Underlay_width(u) == u.width

Underlay_height(u) == u.height

Min(a, b) == IF a < b THEN a ELSE b

Underlay_layout(u, limits) ==
    [k |-> "Node", of |-> u.tag,
     width |-> IF u.width = "Fill" THEN limits.max_width ELSE Min(4, limits.max_width),
     height |-> IF u.height = "Fill" THEN limits.max_height ELSE Min(2, limits.max_height)]

\* result: the event status, the message published to the shell, the new
\* state of the tree handed in
Underlay_on_event(u, t, event, over) ==
    IF event = "ButtonPressed" /\ over
    THEN [status |-> "Captured", msg |-> "none", tree |-> [t EXCEPT !.st = IF u.tag = "Button" THEN TRUE ELSE ~t.st]]
    ELSE IF event = "ButtonReleased" /\ u.tag = "Button" /\ t.st
    THEN [status |-> "Captured", msg |-> IF over THEN "Open" ELSE "none", tree |-> [t EXCEPT !.st = FALSE]]
    ELSE [status |-> "Ignored", msg |-> "none", tree |-> t]

Underlay_mouse_interaction(u, t, over) ==
    [k |-> "Interaction", of |-> t.tag, v |-> IF over THEN "Pointer" ELSE "Idle"]

Underlay_draw(u, t, bounds, over) ==
    [k |-> "Drawn", of |-> u.tag, on |-> t.tag, bounds |-> bounds, active |-> t.st, hovered |-> over]

Underlay_overlay(u, t, bounds) ==
    IF u.tag = "PickList" /\ t.st
    THEN [k |-> "Some", overlay |-> "UnderlayMenu", on |-> t.tag, at |-> <<bounds.x, bounds.y + bounds.height>>]
    ELSE [k |-> "None"]

(***************************************************************************)
(* The widget tree of the host framework.                                  *)
(***************************************************************************)
Tree_new(element) == [tag |-> element.tag, st |-> FALSE]

Tree_diff(t, element) == IF t.tag = element.tag THEN t ELSE Tree_new(element)

Tree_diff_children(t, elements) ==
    [t EXCEPT !.children =
        [i \in 1..Len(elements) |->
            IF i <= Len(t.children) THEN Tree_diff(t.children[i], elements[i])
            ELSE Tree_new(elements[i])]]

\* children[i] of the source (0-based)
HasChild(t, i) == i + 1 <= Len(t.children)

Child(t, i) == t.children[i + 1]

SetChild(t, i, c) == [t EXCEPT !.children[i + 1] = c]

NoTree == [tag |-> "none", state |-> [k |-> "none"], children |-> <<>>]

Panic == [panic |-> TRUE]

Rectangle_center_x(b) == b.x + b.width \div 2

Rectangle_center_y(b) == b.y + b.height \div 2

Point_new(x, y) == [x |-> x, y |-> y]

(***************************************************************************)
(* src/native/color_picker.rs                                              *)
(***************************************************************************)
ColorPickerOverlayButtons_default == [tag |-> "ColorPickerOverlayButtons"]

CP_new(show_picker, color, underlay, on_cancel) ==
    [show_picker |-> show_picker,
     color |-> color,
     underlay |-> underlay,
     on_cancel |-> on_cancel,
     style |-> "Default",
     overlay_state |-> ColorPickerOverlayButtons_default]

\* variant: setting a style also shows the picker
CP_style_shows(w, style) == [w EXCEPT !.style = style, !.show_picker = TRUE]

CP_style(w, style) == [w EXCEPT !.style = style]

\* color_picker::State::new(color) is the overlay's constructor: it is given
\* the color only; nothing is dragged in a new state (as reset leaves it)
CP_State_new(color) ==
    [overlay_state |-> [color |-> color, color_bar_dragged |-> "None"]]

\* variant: the drag state survives a reset
CP_State_reset_color_only(s) ==
    [s EXCEPT !.overlay_state.color = Color_from_rgb(2, 1, 1)]

CP_State_reset(s) ==
    [s EXCEPT !.overlay_state.color = Color_from_rgb(2, 1, 1),
              !.overlay_state.color_bar_dragged = "None"]

CP_tag == "color_picker::State"

CP_state(w) == [type |-> CP_tag, v |-> CP_State_new(w.color)]

CP_children(w) == <<Tree_new(w.underlay), Tree_new(w.overlay_state)>>

\* variant: diff also reseeds the State from the widget's color
CP_diff_reseed(w, t) ==
    [Tree_diff_children(t, <<w.underlay, w.overlay_state>>) EXCEPT !.state = CP_state(w)]

CP_diff(w, t) == Tree_diff_children(t, <<w.underlay, w.overlay_state>>)

CP_width(w) == Underlay_width(w.underlay)

CP_height(w) == Underlay_width(w.underlay)

CP_layout(w, limits) == Underlay_layout(w.underlay, limits)

\* variant: events reach the underlay only while the picker is hidden
CP_on_event_hidden_only(w, t, event, over) ==
    IF ~HasChild(t, 0) THEN Panic
    ELSE IF w.show_picker
    THEN [panic |-> FALSE, tree |-> t, val |-> [k |-> "Status", status |-> "Ignored", msg |-> "none"]]
    ELSE LET r == Underlay_on_event(w.underlay, Child(t, 0), event, over)
         IN  [panic |-> FALSE,
              tree |-> SetChild(t, 0, r.tree),
              val |-> [k |-> "Status", status |-> r.status, msg |-> r.msg]]

CP_on_event(w, t, event, over) ==
    IF ~HasChild(t, 0) THEN Panic
    ELSE LET r == Underlay_on_event(w.underlay, Child(t, 0), event, over)
         IN  [panic |-> FALSE,
              tree |-> SetChild(t, 0, r.tree),
              val |-> [k |-> "Status", status |-> r.status, msg |-> r.msg]]

CP_mouse_interaction(w, t, over) ==
    IF ~HasChild(t, 0) THEN Panic
    ELSE [panic |-> FALSE, tree |-> t,
          val |-> Underlay_mouse_interaction(w.underlay, Child(t, 0), over)]

CP_draw(w, t, bounds, over) ==
    IF ~HasChild(t, 0) THEN Panic
    ELSE [panic |-> FALSE, tree |-> t,
          val |-> Underlay_draw(w.underlay, Child(t, 0), bounds, over)]

\* variant: the underlay's overlay wins whenever it has one
CP_overlay_underlay_first(w, t, bounds) ==
    IF t.state.type # CP_tag THEN Panic
    ELSE IF ~HasChild(t, 0) \/ ~HasChild(t, 1) THEN Panic
    ELSE IF ~w.show_picker \/ Underlay_overlay(w.underlay, Child(t, 0), bounds).k = "Some"
    THEN [panic |-> FALSE, tree |-> t,
          val |-> Underlay_overlay(w.underlay, Child(t, 0), bounds)]
    ELSE [panic |-> FALSE, tree |-> t,
          val |-> [k |-> "Some", overlay |-> "ColorPickerOverlay",
                   on |-> Child(t, 1).tag,
                   on_cancel |-> w.on_cancel,
                   position |-> Point_new(Rectangle_center_x(bounds), Rectangle_center_y(bounds)),
                   style |-> w.style]]

CP_overlay(w, t, bounds) ==
    IF t.state.type # CP_tag THEN Panic
    ELSE IF ~w.show_picker
    THEN IF ~HasChild(t, 0) THEN Panic
         ELSE [panic |-> FALSE, tree |-> t,
               val |-> Underlay_overlay(w.underlay, Child(t, 0), bounds)]
    ELSE IF ~HasChild(t, 1) THEN Panic
    ELSE [panic |-> FALSE, tree |-> t,
          val |-> [k |-> "Some", overlay |-> "ColorPickerOverlay",
                   on |-> Child(t, 1).tag,
                   on_cancel |-> w.on_cancel,
                   position |-> Point_new(Rectangle_center_x(bounds), Rectangle_center_y(bounds)),
                   style |-> w.style]]

(***************************************************************************)
(* src/native/time_picker.rs                                               *)
(***************************************************************************)
TimePickerOverlayButtons_default == [tag |-> "TimePickerOverlayButtons"]

\* conversion of core::time::Time (12 or 24 hour notation) to a NaiveTime
NaiveTime_from(time) ==
    LET h12 == IF time.hour = 12 /\ time.period # "H24" THEN 0 ELSE time.hour
        h == IF time.period = "Pm" THEN (h12 + 12) % 24 ELSE h12
    IN  h * 3600 + time.minute * 60 + time.second

TP_new(show_picker, time, underlay, on_cancel) ==
    [show_picker |-> show_picker,
     time |-> time,
     underlay |-> underlay,
     on_cancel |-> on_cancel,
     style |-> "Default",
     overlay_state |-> TimePickerOverlayButtons_default,
     use_24h |-> FALSE,
     show_seconds |-> FALSE]

TP_use_24h(w) == [w EXCEPT !.use_24h = TRUE]

TP_show_seconds(w) == [w EXCEPT !.show_seconds = TRUE]

TP_style(w, style) == [w EXCEPT !.style = style]

\* time_picker::State::new(time) is the overlay's constructor: it is given
\* the time only, none of the widget's other fields; the flags and the cache
\* of a new state are as new and reset leave them (false, empty)
TP_State_new(time) ==
    [overlay_state |-> [time |-> NaiveTime_from(time),
                        use_24h |-> FALSE,
                        show_seconds |-> FALSE,
                        clock_cache |-> "Empty"]]

\* variant: the display flags survive a reset
TP_State_reset_keep_flags(s, now) ==
    [s EXCEPT !.overlay_state.clock_cache = "Empty",
              !.overlay_state.time = now]

\* now: the value of Local::now().naive_local().time() read by the call
TP_State_reset(s, now) ==
    [s EXCEPT !.overlay_state.clock_cache = "Empty",
              !.overlay_state.time = now,
              !.overlay_state.use_24h = FALSE,
              !.overlay_state.show_seconds = FALSE]

TP_tag == "time_picker::State"

TP_state(w) == [type |-> TP_tag, v |-> TP_State_new(w.time)]

TP_children(w) == <<Tree_new(w.underlay), Tree_new(w.overlay_state)>>

\* variant: only the underlay is diffed
TP_diff_underlay_only(w, t) == Tree_diff_children(t, <<w.underlay>>)

TP_diff(w, t) == Tree_diff_children(t, <<w.underlay, w.overlay_state>>)

TP_width(w) == Underlay_width(w.underlay)

TP_height(w) == Underlay_height(w.underlay)

TP_layout(w, limits) == Underlay_layout(w.underlay, limits)

TP_on_event(w, t, event, over) ==
    IF ~HasChild(t, 0) THEN Panic
    ELSE LET r == Underlay_on_event(w.underlay, Child(t, 0), event, over)
         IN  [panic |-> FALSE,
              tree |-> SetChild(t, 0, r.tree),
              val |-> [k |-> "Status", status |-> r.status, msg |-> r.msg]]

TP_mouse_interaction(w, t, over) ==
    IF ~HasChild(t, 0) THEN Panic
    ELSE [panic |-> FALSE, tree |-> t,
          val |-> Underlay_mouse_interaction(w.underlay, Child(t, 0), over)]

TP_draw(w, t, bounds, over) ==
    IF ~HasChild(t, 0) THEN Panic
    ELSE [panic |-> FALSE, tree |-> t,
          val |-> Underlay_draw(w.underlay, Child(t, 0), bounds, over)]

\* variant: the picker opens at the top left corner of the bounds
TP_overlay_top_left(w, t, bounds) ==
    IF t.state.type # TP_tag THEN Panic
    ELSE IF ~w.show_picker
    THEN IF ~HasChild(t, 0) THEN Panic
         ELSE [panic |-> FALSE, tree |-> t,
               val |-> Underlay_overlay(w.underlay, Child(t, 0), bounds)]
    ELSE IF ~HasChild(t, 1) THEN Panic
    ELSE [panic |-> FALSE, tree |-> t,
          val |-> [k |-> "Some", overlay |-> "TimePickerOverlay",
                   on |-> Child(t, 1).tag,
                   on_cancel |-> w.on_cancel,
                   position |-> Point_new(bounds.x, bounds.y),
                   style |-> w.style]]

TP_overlay(w, t, bounds) ==
    IF t.state.type # TP_tag THEN Panic
    ELSE IF ~w.show_picker
    THEN IF ~HasChild(t, 0) THEN Panic
         ELSE [panic |-> FALSE, tree |-> t,
               val |-> Underlay_overlay(w.underlay, Child(t, 0), bounds)]
    ELSE IF ~HasChild(t, 1) THEN Panic
    ELSE [panic |-> FALSE, tree |-> t,
          val |-> [k |-> "Some", overlay |-> "TimePickerOverlay",
                   on |-> Child(t, 1).tag,
                   on_cancel |-> w.on_cancel,
                   position |-> Point_new(Rectangle_center_x(bounds), Rectangle_center_y(bounds)),
                   style |-> w.style]]

(***************************************************************************)
(* src/native/menu/menu_bar.rs                                             *)
(***************************************************************************)
Rectangle_default == [x |-> 0, y |-> 0, width |-> 0, height |-> 0]

MenuBarState_default ==
    [active_root |-> 0, open |-> FALSE, viewport |-> Rectangle_default, indices |-> <<>>]

MB_new(roots) ==
    [roots |-> roots, spacing |-> 0, padding |-> "ZERO", width |-> "Shrink", height |-> "Shrink"]

MB_size(w) == [panic |-> FALSE, val |-> [k |-> "Size", width |-> w.width, height |-> w.height]]

MB_tag(w) == [panic |-> FALSE, val |-> [k |-> "Tag", tag |-> "MenuBarState"]]

MB_state(w) == [panic |-> FALSE, val |-> [k |-> "State", v |-> MenuBarState_default]]

\* todo!()
MB_children(w) == Panic

MB_diff(w, t) == Panic

\* variant: layout is implemented
MB_layout_done(w, t, limits) ==
    [panic |-> FALSE, val |-> [k |-> "Node", of |-> "MenuBar", width |-> 0, height |-> 0]]

MB_layout(w, t, limits) == Panic

MB_on_event(w, t, event, over) == Panic

MB_draw(w, t, bounds, over) == Panic

MB_overlay(w, t, bounds) == Panic

(***************************************************************************)
(* Dispatch of the Widget trait on the kind of the widget.                 *)
(***************************************************************************)
W_new(kd, show_picker, value, underlay) ==
    IF kd = "ColorPicker" THEN CP_new(show_picker, value, underlay, "Cancel")
    ELSE TP_new(show_picker, value, underlay, "Cancel")

W_value(kd, w) == IF kd = "ColorPicker" THEN w.color ELSE w.time

W_tag(kd) == IF kd = "ColorPicker" THEN CP_tag ELSE TP_tag

W_state(kd, w) == IF kd = "ColorPicker" THEN CP_state(w) ELSE TP_state(w)

W_children(kd, w) == IF kd = "ColorPicker" THEN CP_children(w) ELSE TP_children(w)

W_diff(kd, w, t) == IF kd = "ColorPicker" THEN CP_diff(w, t) ELSE TP_diff(w, t)

W_width(kd, w) == IF kd = "ColorPicker" THEN CP_width(w) ELSE TP_width(w)

W_height(kd, w) == IF kd = "ColorPicker" THEN CP_height(w) ELSE TP_height(w)

W_layout(kd, w, limits) == IF kd = "ColorPicker" THEN CP_layout(w, limits) ELSE TP_layout(w, limits)

W_on_event(kd, w, t, event, over) ==
    IF kd = "ColorPicker" THEN CP_on_event(w, t, event, over) ELSE TP_on_event(w, t, event, over)

W_mouse_interaction(kd, w, t, over) ==
    IF kd = "ColorPicker" THEN CP_mouse_interaction(w, t, over) ELSE TP_mouse_interaction(w, t, over)

W_draw(kd, w, t, bounds, over) ==
    IF kd = "ColorPicker" THEN CP_draw(w, t, bounds, over) ELSE TP_draw(w, t, bounds, over)

W_overlay(kd, w, t, bounds) ==
    IF kd = "ColorPicker" THEN CP_overlay(w, t, bounds) ELSE TP_overlay(w, t, bounds)

MB_call(op, w, t, a) ==
    CASE op = "size" -> MB_size(w)
      [] op = "tag" -> MB_tag(w)
      [] op = "state" -> MB_state(w)
      [] op = "children" -> MB_children(w)
      [] op = "diff" -> MB_diff(w, t)
      [] op = "layout" -> MB_layout(w, t, a.limits)
      [] op = "on_event" -> MB_on_event(w, t, a.event, a.over)
      [] op = "draw" -> MB_draw(w, t, a.bounds, a.over)
      [] op = "overlay" -> MB_overlay(w, t, a.bounds)

MenuBarOps == {"size", "tag", "state", "children", "diff", "layout", "on_event", "draw", "overlay"}

(***************************************************************************)
(* Domains of what the picker overlays keep in the picker State.           *)
(***************************************************************************)
NaiveTimes == {NaiveTime_from(t) : t \in Times}

ColorOverlayStates ==
    [color : Colors \cup {Color_from_rgb(2, 1, 1)}, color_bar_dragged : ColorBarDraggedValues]

TimeOverlayStates ==
    [time : NaiveTimes, use_24h : BOOLEAN, show_seconds : BOOLEAN, clock_cache : {"Empty", "Filled"}]

Values(kd) == IF kd = "ColorPicker" THEN Colors ELSE Times

ClockStart == 10 * 3600

NoValue == [k |-> "NoValue"]

NoArg == [k |-> "NoArg"]

Unit == [k |-> "Unit"]

(***************************************************************************)
(* Initial state: a widget value fresh from new, no tree yet.              *)
(***************************************************************************)
Init ==
    /\ kind \in Kinds
    /\ IF kind = "MenuBar"
       THEN self = MB_new(<<>>)
       ELSE self \in {W_new(kind, sp, v, u) : sp \in BOOLEAN, v \in Values(kind), u \in Underlays}
    /\ phase = "building"
    /\ tree = NoTree
    /\ ret = [op |-> "new", arg |-> NoArg, val |-> Unit]
    /\ aborted = FALSE
    /\ clock = ClockStart
    /\ seed = NoValue
    /\ touched = FALSE

(***************************************************************************)
(* Building a widget value: new and the builder calls.                     *)
(***************************************************************************)
New ==
    /\ ~aborted
    /\ kind \in Pickers
    /\ \E sp \in BOOLEAN, v \in Values(kind), u \in Underlays :
           self' = W_new(kind, sp, v, u)
    /\ phase' = "building"
    /\ ret' = [op |-> "new", arg |-> NoArg, val |-> Unit]
    /\ UNCHANGED <<kind, tree, aborted, clock, seed, touched>>

Style ==
    /\ ~aborted
    /\ kind \in Pickers
    /\ phase = "building"
    /\ \E st \in Styles :
           self' = IF kind = "ColorPicker" THEN CP_style(self, st) ELSE TP_style(self, st)
    /\ ret' = [op |-> "style", arg |-> NoArg, val |-> Unit]
    /\ UNCHANGED <<kind, phase, tree, aborted, clock, seed, touched>>

Use24h ==
    /\ ~aborted
    /\ kind = "TimePicker"
    /\ phase = "building"
    /\ self' = TP_use_24h(self)
    /\ ret' = [op |-> "use_24h", arg |-> NoArg, val |-> Unit]
    /\ UNCHANGED <<kind, phase, tree, aborted, clock, seed, touched>>

ShowSeconds ==
    /\ ~aborted
    /\ kind = "TimePicker"
    /\ phase = "building"
    /\ self' = TP_show_seconds(self)
    /\ ret' = [op |-> "show_seconds", arg |-> NoArg, val |-> Unit]
    /\ UNCHANGED <<kind, phase, tree, aborted, clock, seed, touched>>

(***************************************************************************)
(* The host framework creates the tree of a widget on its first build      *)
(* (Tree::new: tag, state, children) and diffs it on every later build.    *)
(***************************************************************************)
TreeNew ==
    /\ ~aborted
    /\ kind \in Pickers
    /\ phase = "building"
    /\ tree = NoTree
    /\ tree' = [tag |-> W_tag(kind),
                state |-> W_state(kind, self),
                children |-> W_children(kind, self)]
    /\ phase' = "live"
    /\ seed' = [k |-> "Seed", v |-> W_value(kind, self)]
    /\ ret' = [op |-> "tree_new", arg |-> NoArg, val |-> Unit]
    /\ UNCHANGED <<kind, self, aborted, clock, touched>>

Diff ==
    /\ ~aborted
    /\ kind \in Pickers
    /\ tree # NoTree
    /\ tree' = W_diff(kind, self, tree)
    /\ phase' = "live"
    /\ ret' = [op |-> "diff", arg |-> NoArg, val |-> Unit]
    /\ UNCHANGED <<kind, self, aborted, clock, seed, touched>>

(***************************************************************************)
(* The Widget operations of the pickers.                                   *)
(***************************************************************************)
Live == ~aborted /\ kind \in Pickers /\ phase # "building" /\ tree # NoTree

\* the outcome of a call: a panic leaves no value and ends the program
Return(op, arg, out, ph) ==
    /\ aborted' = out.panic
    /\ tree' = IF out.panic THEN tree ELSE out.tree
    /\ ret' = [op |-> op, arg |-> arg, val |-> IF out.panic THEN NoValue ELSE out.val]
    /\ phase' = IF out.panic THEN phase ELSE ph

Width ==
    /\ Live
    /\ ret' = [op |-> "width", arg |-> NoArg, val |-> [k |-> "Length", v |-> W_width(kind, self)]]
    /\ phase' = "live"
    /\ UNCHANGED <<kind, self, tree, aborted, clock, seed, touched>>

Height ==
    /\ Live
    /\ ret' = [op |-> "height", arg |-> NoArg, val |-> [k |-> "Length", v |-> W_height(kind, self)]]
    /\ phase' = "live"
    /\ UNCHANGED <<kind, self, tree, aborted, clock, seed, touched>>

Layout ==
    /\ Live
    /\ \E limits \in LimitsSet :
           ret' = [op |-> "layout", arg |-> [limits |-> limits], val |-> W_layout(kind, self, limits)]
    /\ phase' = "live"
    /\ UNCHANGED <<kind, self, tree, aborted, clock, seed, touched>>

OnEvent ==
    /\ Live
    /\ \E event \in Events, over \in BOOLEAN :
           Return("on_event", [event |-> event, over |-> over],
                  W_on_event(kind, self, tree, event, over), "live")
    /\ UNCHANGED <<kind, self, clock, seed, touched>>

MouseInteraction ==
    /\ Live
    /\ \E over \in BOOLEAN :
           Return("mouse_interaction", [over |-> over],
                  W_mouse_interaction(kind, self, tree, over), "live")
    /\ UNCHANGED <<kind, self, clock, seed, touched>>

Draw ==
    /\ Live
    /\ \E bounds \in Rectangles, over \in BOOLEAN :
           Return("draw", [bounds |-> bounds, over |-> over],
                  W_draw(kind, self, tree, bounds, over), "live")
    /\ UNCHANGED <<kind, self, clock, seed, touched>>

IsPickerOverlay(v) == v.k = "Some" /\ v.overlay \in {"ColorPickerOverlay", "TimePickerOverlay"}

\* the overlay element returned borrows the tree until it is dropped
Overlay ==
    /\ Live
    /\ \E bounds \in Rectangles :
           LET out == W_overlay(kind, self, tree, bounds)
           IN  Return("overlay", [bounds |-> bounds], out,
                      IF out.panic \/ out.val.k = "None" THEN "live"
                      ELSE IF IsPickerOverlay(out.val) THEN "picker_overlay"
                      ELSE "underlay_overlay")
    /\ UNCHANGED <<kind, self, clock, seed, touched>>

(***************************************************************************)
(* What the holders of the mutable borrows handed out by overlay() do.     *)
(***************************************************************************)
\* the picker overlay holds &mut State and &mut children[1]
PickerOverlayActs ==
    /\ ~aborted
    /\ phase = "picker_overlay"
    /\ \E os \in (IF kind = "ColorPicker" THEN ColorOverlayStates ELSE TimeOverlayStates),
          b \in BOOLEAN :
           tree' = [tree EXCEPT !.state.v.overlay_state = os, !.children[2].st = b]
    /\ touched' = TRUE
    /\ ret' = [op |-> "picker_overlay", arg |-> NoArg, val |-> Unit]
    /\ UNCHANGED <<kind, self, phase, aborted, clock, seed>>

\* the underlay's overlay holds &mut children[0]
UnderlayOverlayActs ==
    /\ ~aborted
    /\ phase = "underlay_overlay"
    /\ \E b \in BOOLEAN : tree' = [tree EXCEPT !.children[1].st = b]
    /\ ret' = [op |-> "underlay_overlay", arg |-> NoArg, val |-> Unit]
    /\ UNCHANGED <<kind, self, phase, aborted, clock, seed, touched>>

\* State::reset, callable by the holder of &mut State
Reset ==
    /\ ~aborted
    /\ phase = "picker_overlay"
    /\ tree' = [tree EXCEPT !.state.v =
                   IF kind = "ColorPicker" THEN CP_State_reset(@) ELSE TP_State_reset(@, clock)]
    /\ touched' = TRUE
    /\ ret' = [op |-> "reset", arg |-> NoArg, val |-> Unit]
    /\ UNCHANGED <<kind, self, phase, aborted, clock, seed>>

\* the local clock advances (only the time picker reads it)
Tick ==
    /\ kind = "TimePicker"
    /\ clock < ClockStart + MaxTicks
    /\ clock' = clock + 1
    /\ UNCHANGED <<kind, self, phase, tree, ret, aborted, seed, touched>>

(***************************************************************************)
(* The menu bar.                                                           *)
(***************************************************************************)
MenuBarNew ==
    /\ ~aborted
    /\ kind = "MenuBar"
    /\ \E r \in SeqsUpTo(Items, MaxRoots) : self' = MB_new(r)
    /\ ret' = [op |-> "new", arg |-> NoArg, val |-> Unit]
    /\ UNCHANGED <<kind, phase, tree, aborted, clock, seed, touched>>

MenuBarCall ==
    /\ ~aborted
    /\ kind = "MenuBar"
    /\ \E op \in MenuBarOps, limits \in LimitsSet, event \in Events, over \in BOOLEAN, bounds \in Rectangles :
           LET a == [limits |-> limits, event |-> event, over |-> over, bounds |-> bounds]
               out == MB_call(op, self, tree, a)
           IN  /\ aborted' = out.panic
               /\ ret' = [op |-> op, arg |-> a, val |-> IF out.panic THEN NoValue ELSE out.val]
    /\ UNCHANGED <<kind, self, phase, tree, clock, seed, touched>>

Next ==
    \/ New
    \/ Style
    \/ Use24h
    \/ ShowSeconds
    \/ TreeNew
    \/ Diff
    \/ Width
    \/ Height
    \/ Layout
    \/ OnEvent
    \/ MouseInteraction
    \/ Draw
    \/ Overlay
    \/ PickerOverlayActs
    \/ UnderlayOverlayActs
    \/ Reset
    \/ Tick
    \/ MenuBarNew
    \/ MenuBarCall

Spec == Init /\ [][Next]_vars

TypeOK ==
    /\ kind \in Kinds
    /\ phase \in {"building", "live", "picker_overlay", "underlay_overlay"}
    /\ aborted \in BOOLEAN
    /\ touched \in BOOLEAN
    /\ clock \in ClockStart..(ClockStart + MaxTicks)

(***************************************************************************)
(* Properties.                                                             *)
(***************************************************************************)
PickerOverlayName == IF kind = "ColorPicker" THEN "ColorPickerOverlay" ELSE "TimePickerOverlay"

ButtonsTag == IF kind = "ColorPicker" THEN "ColorPickerOverlayButtons" ELSE "TimePickerOverlayButtons"

\* C1: overlay() of a picker is selected by show_picker alone: when it is
\* true the result is Some(picker overlay) built on the tree's child 1, also
\* when the underlay has an overlay of its own; when it is false the result
\* is what the underlay's overlay() returns on child 0.
C1_OverlaySelectedByFlag ==
    (kind \in Pickers /\ ret.op = "overlay") =>
        IF self.show_picker
        THEN /\ IsPickerOverlay(ret.val)
             /\ ret.val.overlay = PickerOverlayName
             /\ ret.val.on = ButtonsTag
             /\ ret.val.on = Child(tree, 1).tag
        ELSE /\ ~IsPickerOverlay(ret.val)
             /\ ret.val = Underlay_overlay(self.underlay, Child(tree, 0), ret.arg.bounds)

\* the picker is shown although the underlay has an open overlay of its own
C1_Witness ==
    /\ kind \in Pickers
    /\ ret.op = "overlay"
    /\ self.show_picker
    /\ IsPickerOverlay(ret.val)
    /\ Underlay_overlay(self.underlay, Child(tree, 0), ret.arg.bounds).k = "Some"

ForwardedOps == {"layout", "on_event", "mouse_interaction", "draw"}

\* C2: layout, on_event, draw and mouse_interaction of a picker forward to
\* the underlay with the tree's child 0 whatever show_picker is: the result
\* is the underlay's result (on_event: its status and its message), child 0
\* becomes what the underlay made of it, and the picker State and child 1
\* stay as they were.
C2_ForwardToUnderlay ==
    [][(kind \in Pickers /\ ret'.op \in ForwardedOps /\ clock' = clock) =>
          /\ ~aborted'
          /\ tree'.state = tree.state
          /\ Child(tree', 1) = Child(tree, 1)
          /\ Len(tree'.children) = Len(tree.children)
          /\ ret'.op = "layout" =>
                /\ ret'.val = Underlay_layout(self.underlay, ret'.arg.limits)
                /\ tree' = tree
          /\ ret'.op = "on_event" =>
                LET r == Underlay_on_event(self.underlay, Child(tree, 0), ret'.arg.event, ret'.arg.over)
                IN  /\ ret'.val.status = r.status
                    /\ ret'.val.msg = r.msg
                    /\ Child(tree', 0) = r.tree
          /\ ret'.op = "mouse_interaction" =>
                /\ ret'.val = Underlay_mouse_interaction(self.underlay, Child(tree, 0), ret'.arg.over)
                /\ tree' = tree
          /\ ret'.op = "draw" =>
                /\ ret'.val = Underlay_draw(self.underlay, Child(tree, 0), ret'.arg.bounds, ret'.arg.over)
                /\ tree' = tree]_vars

\* the underlay has taken an event while the picker is shown
C2_Witness ==
    /\ kind \in Pickers
    /\ self.show_picker
    /\ ret.op = "on_event"
    /\ ret.val.status = "Captured"
    /\ Child(tree, 0).st

\* C3: when show_picker is true the position handed to the picker overlay is
\* the center of the layout bounds, (x + width/2, y + height/2).
C3_OverlayCentered ==
    (kind \in Pickers /\ ret.op = "overlay" /\ self.show_picker) =>
        /\ IsPickerOverlay(ret.val)
        /\ 2 * ret.val.position.x = 2 * ret.arg.bounds.x + ret.arg.bounds.width
        /\ 2 * ret.val.position.y = 2 * ret.arg.bounds.y + ret.arg.bounds.height

\* a picker shown on bounds away from the origin that are not square
C3_Witness ==
    /\ kind \in Pickers
    /\ ret.op = "overlay"
    /\ IsPickerOverlay(ret.val)
    /\ ret.arg.bounds.x > 0
    /\ ret.arg.bounds.width # ret.arg.bounds.height
    /\ ret.val.position.x # ret.val.position.y

\* C4: no operation of a picker aborts, and its tree, once created and after
\* any number of diffs, holds the picker State and exactly the two children
\* [underlay, overlay buttons].
C4_TreeWellFormed ==
    kind \in Pickers =>
        /\ ~aborted
        /\ tree # NoTree =>
              /\ tree.tag = W_tag(kind)
              /\ tree.state.type = W_tag(kind)
              /\ Len(tree.children) = 2
              /\ Child(tree, 1).tag = ButtonsTag
              /\ phase # "building" => Child(tree, 0).tag = self.underlay.tag

\* a tree diffed against a rebuilt widget, after the overlay has acted on it
C4_Witness ==
    /\ kind \in Pickers
    /\ ret.op = "diff"
    /\ touched
    /\ W_value(kind, self) # seed.v
    /\ Len(tree.children) = 2
    /\ Child(tree, 0).tag = "PickList"

MenuBarTodoOps == {"children", "diff", "layout", "on_event", "draw", "overlay"}

\* C5: MenuBar's children, diff, layout, on_event, draw and overlay abort on
\* every call, return no value and change no state; new, size, tag and state
\* complete: size is the configured width and height (Shrink and Shrink),
\* state is a MenuBarState with open = false, active_root = 0, no indices.
C5_MenuBarUnimplemented ==
    kind = "MenuBar" =>
        /\ ret.op \in MenuBarTodoOps => aborted /\ ret.val = NoValue
        /\ ret.op \notin MenuBarTodoOps => ~aborted
        /\ tree = NoTree
        /\ ret.op = "size" =>
              /\ ret.val = [k |-> "Size", width |-> self.width, height |-> self.height]
              /\ ret.val.width = "Shrink"
              /\ ret.val.height = "Shrink"
        /\ ret.op = "tag" => ret.val.tag = "MenuBarState"
        /\ ret.op = "state" =>
              /\ ret.val.v.open = FALSE
              /\ ret.val.v.active_root = 0
              /\ ret.val.v.indices = <<>>

\* a menu bar with roots whose layout call has aborted
C5_Witness ==
    /\ kind = "MenuBar"
    /\ Len(self.roots) > 0
    /\ ret.op = "layout"
    /\ aborted

\* C6: the overlay state used by TimePicker::overlay has use_24h and
\* show_seconds as the widget was built: true with the builder call, false
\* without it.
C6_BuilderOptionsReachOverlay ==
    (kind = "TimePicker" /\ ret.op = "overlay" /\ IsPickerOverlay(ret.val)) =>
        /\ tree.state.v.overlay_state.use_24h = self.use_24h
        /\ tree.state.v.overlay_state.show_seconds = self.show_seconds

ResetColorState == [color |-> Color_from_rgb(2, 1, 1), color_bar_dragged |-> "None"]

\* C7: ColorPicker State::reset takes every state to color
\* rgb(0.5, 0.25, 0.25) and color_bar_dragged None, whatever the state was
\* created with, and a second reset changes nothing.
C7_ColorReset ==
    (kind = "ColorPicker" /\ tree # NoTree) =>
        /\ CP_State_reset(tree.state.v).overlay_state = ResetColorState
        /\ CP_State_reset(CP_State_reset(tree.state.v)) = CP_State_reset(tree.state.v)
        /\ ret.op = "reset" => tree.state.v.overlay_state = ResetColorState

\* a state created with another color has been reset
C7_Witness ==
    /\ kind = "ColorPicker"
    /\ ret.op = "reset"
    /\ seed.v # ResetColorState.color
    /\ tree.state.v.overlay_state = ResetColorState

\* C8: TimePicker State::reset sets the time to the local clock time read
\* by the call, use_24h and show_seconds to false and clears the clock
\* cache, whatever they were.
C8_TimeReset ==
    [][(kind = "TimePicker" /\ ret'.op = "reset" /\ clock' = clock) =>
          tree'.state.v.overlay_state =
              [time |-> clock, use_24h |-> FALSE, show_seconds |-> FALSE, clock_cache |-> "Empty"]]_vars

\* a reset after the clock has advanced
C8_Witness ==
    /\ kind = "TimePicker"
    /\ ret.op = "reset"
    /\ clock > ClockStart
    /\ tree.state.v.overlay_state.time = clock

SeededValue == IF kind = "ColorPicker" THEN seed.v ELSE NaiveTime_from(seed.v)

StateValue ==
    IF kind = "ColorPicker" THEN tree.state.v.overlay_state.color
    ELSE tree.state.v.overlay_state.time

\* C9: the picker State is seeded from the widget's color or time when the
\* tree is created; diff leaves it unchanged, so until the overlay changes
\* it, it holds the value of the first build whatever later builds carry.
C9_StateSeededOnce ==
    /\ []((kind \in Pickers /\ tree # NoTree /\ ~touched) => StateValue = SeededValue)
    /\ [][(kind \in Pickers /\ ret'.op = "diff") => tree'.state = tree.state]_vars

\* a diff against a widget rebuilt with another value
C9_Witness ==
    /\ kind \in Pickers
    /\ ret.op = "diff"
    /\ ~touched
    /\ W_value(kind, self) # seed.v
    /\ StateValue = SeededValue

\* C10: width() of a picker is the underlay's width() and height() is the
\* underlay's height().
C10_SizeOfUnderlay ==
    kind \in Pickers =>
        /\ ret.op = "width" => ret.val.v = Underlay_width(self.underlay)
        /\ ret.op = "height" => ret.val.v = Underlay_height(self.underlay)

\* C11: show_picker of a picker is set by new only: no builder call (style,
\* use_24h, show_seconds) and no layout, on_event, draw, mouse_interaction,
\* diff or overlay call changes it, so every overlay() call on one widget
\* value makes the choice the flag names; the flag is not kept in the tree
\* State, and building a widget with another flag leaves the tree as it was.
C11_ShowPickerFixed ==
    /\ [][(kind \in Pickers /\ ret'.op # "new") => self'.show_picker = self.show_picker]_vars
    /\ [][(kind \in Pickers /\ ret'.op = "new") => tree' = tree]_vars
    /\ []((kind \in Pickers /\ ret.op = "overlay") => (IsPickerOverlay(ret.val) <=> self.show_picker))
    /\ []((kind \in Pickers /\ tree # NoTree) =>
            /\ DOMAIN tree.state.v = {"overlay_state"}
            /\ "show_picker" \notin DOMAIN tree.state.v.overlay_state)

\* a styled widget whose overlay() is called again after the picker overlay
\* of an earlier call has acted
C11_Witness ==
    /\ kind \in Pickers
    /\ ret.op = "overlay"
    /\ touched
    /\ self.style = "Custom"
    /\ self.show_picker
    /\ IsPickerOverlay(ret.val)

====
